---- MODULE Spec2Model ----
(***************************************************************************)
(* Storytelling Spectrum: the progression reducer of lib/storytellingGame  *)
(* (spine traversal, combination crafting, distribution modifiers,         *)
(* reflections, history log) and its query and projection functions.       *)
(*                                                                         *)
(* The reducers are pure functions of a run state; they are operators      *)
(* here, and one action per reducer applies it to the run held by the      *)
(* caller (App: setState((prev) => reducer(prev, arg))).                   *)
(***************************************************************************)
EXTENDS Integers, Sequences, FiniteSets, TLC

VARIABLES state, prev, call, thrown, dictionary, rules,
          passedGateKeys, pendingGateKey, gateAnswer,
          gameState, activeLevel, pointer, probe

vars == <<state, prev, call, thrown, dictionary, rules,
          passedGateKeys, pendingGateKey, gateAnswer,
          gameState, activeLevel, pointer, probe>>

(***************************************************************************)
(* Bounds.                                                                 *)
(***************************************************************************)
\* number of stages of the spine that the configuration holds
NumStages == 3
\* no reducer call is made once turn has reached MaxTurn
MaxTurn == 4

(***************************************************************************)
(* Helpers for arrays and strings.                                         *)
(***************************************************************************)
NULL == "<null>"

\* Array.prototype.includes
Includes(arr, x) == \E i \in 1..Len(arr) : arr[i] = x

\* the entries of an array as a set
Elems(arr) == {arr[i] : i \in 1..Len(arr)}

\* no entry occurs twice
NoDuplicates(arr) == \A i, j \in 1..Len(arr) : arr[i] = arr[j] => i = j

\* Texts are sequences of one-character strings.
WhiteSpace == {" ", "\t", "\n"}

RECURSIVE trimStart(_)
trimStart(text) ==
    IF text # <<>> /\ Head(text) \in WhiteSpace THEN trimStart(Tail(text)) ELSE text

RECURSIVE trimEnd(_)
trimEnd(text) ==
    IF text # <<>> /\ text[Len(text)] \in WhiteSpace
    THEN trimEnd(SubSeq(text, 1, Len(text) - 1))
    ELSE text

\* String.prototype.trim
trim(text) == trimEnd(trimStart(text))

(***************************************************************************)
(* Configuration: dictionary (vocabulary) and rules.                       *)
(*                                                                         *)
(* The engine reads both documents once, at load, and is driven by them:   *)
(* dictionary and rules hold what was loaded.  The configuration of Spec   *)
(* is a small one of the shapes declared in types/storytelling: the first  *)
(* NumStages formats of the spine with one edge from each to the next.     *)
(* Every configuration has the same three recipes (one takes a crafted     *)
(* artifact as input, two share an output), two modifiers, and metric      *)
(* deltas large enough to carry a sum past either end of the scoring range.*)
(***************************************************************************)
metricKeys == {"fidelity", "persuasion", "reach", "distortion"}

Profile(f, p, r, d) == [fidelity |-> f, persuasion |-> p, reach |-> r, distortion |-> d]

\* the twelve formats of the spine, in order
SpineIds ==
    << "thought", "networked_thought", "text_structured", "audio", "images",
       "moving_images_without_audio", "moving_images_with_audio", "website",
       "product", "solution", "protocol", "math" >>

SpineLabels ==
    << "Thought", "Networked Thought", "Text", "Audio", "Images",
       "Moving Images (Without Audio)", "Moving Images (With Audio)", "Website",
       "Product", "Solution", "Protocol", "Math" >>

\* the SpineNode of the i-th format, placed at the given order of a spine
SpineNode(i, order) ==
    [ id |-> SpineIds[i],
      label |-> SpineLabels[i],
      order |-> order,
      signal_profile |-> Profile(95 - 5 * order, 10 + 5 * order, 5 * order, 100 - 5 * order) ]

\* a dictionary and rules whose spine is the first NumStages formats
ShortDictionary == [ core_spine |-> [ i \in 1..NumStages |-> SpineNode(i, i) ] ]

ShortRules ==
    [ run |-> [ start_node |-> SpineIds[1] ],
      progression_edges |-> [ i \in 1..(NumStages - 1) |-> << SpineIds[i], SpineIds[i + 1] >> ] ]

\* dictionary.core_spine
core_spine == dictionary.core_spine

\* dictionary.combination_layer
combination_layer ==
    << [ id |-> "annotated_map", label |-> "Annotated Map",
         inputs |-> << "thought", "networked_thought" >>, output |-> "mind_map",
         metric_delta |-> Profile(20, 5, -20, -5) ],
       [ id |-> "essay", label |-> "Essay",
         inputs |-> << "mind_map", "text_structured" >>, output |-> "long_form",
         metric_delta |-> Profile(20, -30, 10, -60) ],
       [ id |-> "outline", label |-> "Outline",
         inputs |-> << "thought", "text_structured" >>, output |-> "mind_map",
         metric_delta |-> Profile(-10, 40, 45, 0) ] >>

\* dictionary.variable_vocabulary.distribution
distribution ==
    << [ id |-> "feed", label |-> "Feed", metric_delta |-> Profile(-20, 10, 60, 10) ],
       [ id |-> "search", label |-> "Search", metric_delta |-> Profile(10, -35, 30, -50) ] >>

\* rules.run.start_node
start_node == rules.run.start_node

\* rules.progression_edges
progression_edges == rules.progression_edges

\* rules.scoring.range
range == [min |-> 0, max |-> 100]

\* new Map(entries): a later entry with the same key replaces an earlier one
MapById(entries) ==
    [ id \in {entries[i].id : i \in 1..Len(entries)} |->
        LET last == CHOOSE i \in 1..Len(entries) :
                        /\ entries[i].id = id
                        /\ \A j \in 1..Len(entries) : entries[j].id = id => j <= i
        IN entries[last] ]

spineById == MapById(core_spine)
combinationsById == MapById(combination_layer)
modifiersById == MapById(distribution)

\* clamp without the lower limit
clamp_NoLower(value, min, max) == IF value < max THEN value ELSE max

clamp(value, min, max) ==
    LET lower == IF value > min THEN value ELSE min
    IN IF lower < max THEN lower ELSE max

\* the Error that getNode throws, as a value; a function that throws
\* returns the Error in place of its result
MissingNode(nodeId) == [error |-> "Missing spine node", id |-> nodeId]

IsError(result) == "error" \in DOMAIN result

\* Map.prototype.has and Map.prototype.get on a map built from entries,
\* looked up in the entries themselves: the last entry of an id is the one
\* the map holds
HasId(entries, id) == \E i \in 1..Len(entries) : entries[i].id = id

GetById(entries, id) ==
    entries[CHOOSE i \in 1..Len(entries) :
                /\ entries[i].id = id
                /\ \A j \in (i + 1)..Len(entries) : entries[j].id # id]

getNode(nodeId) ==
    IF HasId(core_spine, nodeId) THEN GetById(core_spine, nodeId) ELSE MissingNode(nodeId)

\* getNextNodeId that looks for the edge that arrives at currentNodeId
getNextNodeId_MatchesTarget(currentNodeId) ==
    IF \E i \in 1..Len(progression_edges) : progression_edges[i][2] = currentNodeId
    THEN currentNodeId
    ELSE NULL

\* Array.prototype.find on the edges: the first edge leaving currentNodeId
getNextNodeId(currentNodeId) ==
    IF \E i \in 1..Len(progression_edges) : progression_edges[i][1] = currentNodeId
    THEN LET first == CHOOSE i \in 1..Len(progression_edges) :
                          /\ progression_edges[i][1] = currentNodeId
                          /\ \A j \in 1..Len(progression_edges) :
                                 progression_edges[j][1] = currentNodeId => i <= j
         IN progression_edges[first][2]
    ELSE NULL

(***************************************************************************)
(* Run state and reducers.                                                 *)
(***************************************************************************)
\* createInitialState that does not record the start stage as visited
createInitialState_NothingVisited ==
    [ currentNodeId |-> start_node,
      visitedNodeIds |-> << >>,
      craftedCombinationIds |-> << >>,
      craftedArtifactIds |-> << >>,
      appliedModifierIds |-> << >>,
      reflections |-> << >>,
      history |-> << >>,
      turn |-> 0 ]

createInitialState ==
    [ currentNodeId |-> start_node,
      visitedNodeIds |-> << start_node >>,
      craftedCombinationIds |-> << >>,
      craftedArtifactIds |-> << >>,
      appliedModifierIds |-> << >>,
      reflections |-> << >>,
      history |-> << >>,
      turn |-> 0 ]

(***************************************************************************)
(* Each reducer is preceded by its variants with one plausible defect;     *)
(* the properties below are required to tell the reducer from them.        *)
(***************************************************************************)
\* A history detail is the message template (kind) with the values it interpolates.
Detail(kind, label, ids) == [kind |-> kind, label |-> label, ids |-> ids]

\* pushHistory that numbers the entry but does not raise the turn counter
pushHistory_StaleTurn(s, action, detail) ==
    [ s EXCEPT
        !.history = Append(s.history, [turn |-> s.turn + 1, action |-> action, detail |-> detail]) ]

pushHistory(s, action, detail) ==
    [ s EXCEPT
        !.history = Append(s.history, [turn |-> s.turn + 1, action |-> action, detail |-> detail]),
        !.turn = s.turn + 1 ]

\* advanceOneStep that follows two edges when it can
advanceOneStep_Skip(s) ==
    LET oneNodeId == getNextNodeId(s.currentNodeId)
        nextNodeId == IF oneNodeId # NULL /\ getNextNodeId(oneNodeId) # NULL
                      THEN getNextNodeId(oneNodeId)
                      ELSE oneNodeId
    IN IF nextNodeId = NULL
       THEN pushHistory(s, "advance",
                Detail("Already at the end node (Math). No further advance possible.", "", << >>))
       ELSE pushHistory(
                [ s EXCEPT
                    !.currentNodeId = nextNodeId,
                    !.visitedNodeIds =
                        IF Includes(s.visitedNodeIds, nextNodeId)
                        THEN s.visitedNodeIds
                        ELSE Append(s.visitedNodeIds, nextNodeId) ],
                "advance",
                Detail("->", "", << getNode(s.currentNodeId).label, getNode(nextNodeId).label >>))

\* advanceOneStep that moves the current stage without recording the visit
advanceOneStep_NoVisit(s) ==
    LET nextNodeId == getNextNodeId(s.currentNodeId)
    IN IF nextNodeId = NULL
       THEN pushHistory(s, "advance",
                Detail("Already at the end node (Math). No further advance possible.", "", << >>))
       ELSE pushHistory(
                [ s EXCEPT !.currentNodeId = nextNodeId ],
                "advance",
                Detail("->", "", << getNode(s.currentNodeId).label, getNode(nextNodeId).label >>))

\* advanceOneStep that lists the stage it reaches before the earlier ones
advanceOneStep_VisitsFirst(s) ==
    LET nextNodeId == getNextNodeId(s.currentNodeId)
    IN IF nextNodeId = NULL
       THEN pushHistory(s, "advance",
                Detail("Already at the end node (Math). No further advance possible.", "", << >>))
       ELSE pushHistory(
                [ s EXCEPT
                    !.currentNodeId = nextNodeId,
                    !.visitedNodeIds =
                        IF Includes(s.visitedNodeIds, nextNodeId)
                        THEN s.visitedNodeIds
                        ELSE << nextNodeId >> \o s.visitedNodeIds ],
                "advance",
                Detail("->", "", << getNode(s.currentNodeId).label, getNode(nextNodeId).label >>))

advanceOneStep(s) ==
    LET nextNodeId == getNextNodeId(s.currentNodeId)
    IN IF nextNodeId = NULL
       THEN pushHistory(s, "advance",
                Detail("Already at the end node (Math). No further advance possible.", "", << >>))
       ELSE LET current == getNode(s.currentNodeId)
                next == getNode(nextNodeId)
            IN IF IsError(current) THEN current
               ELSE IF IsError(next) THEN next
               ELSE pushHistory(
                   [ s EXCEPT
                       !.currentNodeId = nextNodeId,
                       !.visitedNodeIds =
                           IF Includes(s.visitedNodeIds, nextNodeId)
                           THEN s.visitedNodeIds
                           ELSE Append(s.visitedNodeIds, nextNodeId) ],
                   "advance",
                   Detail("->", "", << current.label, next.label >>))

\* hasIngredient that looks at visited stages only
hasIngredient_VisitedOnly(s, ingredientId) == Includes(s.visitedNodeIds, ingredientId)

hasIngredient(s, ingredientId) ==
    Includes(s.visitedNodeIds, ingredientId) \/ Includes(s.craftedArtifactIds, ingredientId)

\* craftCombination without the already-crafted check
craftCombination_NoCraftedGuard(s, combinationId) ==
    IF combinationId \notin DOMAIN combinationsById
    THEN pushHistory(s, "combination", Detail("Unknown combination: ", "", << combinationId >>))
    ELSE LET combo == combinationsById[combinationId]
             missing == SelectSeq(combo.inputs, LAMBDA inputId : ~hasIngredient(s, inputId))
         IN IF Len(missing) > 0
            THEN pushHistory(s, "combination",
                     Detail(" blocked. Missing inputs: ", combo.label, missing))
            ELSE pushHistory(
                     [ s EXCEPT
                         !.craftedCombinationIds = Append(s.craftedCombinationIds, combinationId),
                         !.craftedArtifactIds =
                             IF Includes(s.craftedArtifactIds, combo.output)
                             THEN s.craftedArtifactIds
                             ELSE Append(s.craftedArtifactIds, combo.output) ],
                     "combination",
                     Detail(" crafted -> ", combo.label, << combo.output >>))

\* craftCombination that appends the output without looking for it
craftCombination_NoArtifactGuard(s, combinationId) ==
    IF combinationId \notin DOMAIN combinationsById
    THEN pushHistory(s, "combination", Detail("Unknown combination: ", "", << combinationId >>))
    ELSE LET combo == combinationsById[combinationId]
             missing == SelectSeq(combo.inputs, LAMBDA inputId : ~hasIngredient(s, inputId))
         IN IF Includes(s.craftedCombinationIds, combinationId)
            THEN pushHistory(s, "combination", Detail(" already crafted.", combo.label, << >>))
            ELSE IF Len(missing) > 0
            THEN pushHistory(s, "combination",
                     Detail(" blocked. Missing inputs: ", combo.label, missing))
            ELSE pushHistory(
                     [ s EXCEPT
                         !.craftedCombinationIds = Append(s.craftedCombinationIds, combinationId),
                         !.craftedArtifactIds = Append(s.craftedArtifactIds, combo.output) ],
                     "combination",
                     Detail(" crafted -> ", combo.label, << combo.output >>))

\* craftCombination that refuses every recipe once the end of the spine is reached
craftCombination_LockedAtEnd(s, combinationId) ==
    IF combinationId \notin DOMAIN combinationsById
    THEN pushHistory(s, "combination", Detail("Unknown combination: ", "", << combinationId >>))
    ELSE LET combo == combinationsById[combinationId]
             missing == SelectSeq(combo.inputs, LAMBDA inputId : ~hasIngredient(s, inputId))
         IN IF Includes(s.craftedCombinationIds, combinationId)
            THEN pushHistory(s, "combination", Detail(" already crafted.", combo.label, << >>))
            ELSE IF Len(missing) > 0 \/ getNextNodeId(s.currentNodeId) = NULL
            THEN pushHistory(s, "combination",
                     Detail(" blocked. Missing inputs: ", combo.label, missing))
            ELSE pushHistory(
                     [ s EXCEPT
                         !.craftedCombinationIds = Append(s.craftedCombinationIds, combinationId),
                         !.craftedArtifactIds =
                             IF Includes(s.craftedArtifactIds, combo.output)
                             THEN s.craftedArtifactIds
                             ELSE Append(s.craftedArtifactIds, combo.output) ],
                     "combination",
                     Detail(" crafted -> ", combo.label, << combo.output >>))

\* craftCombination whose blocked entry lists every input of the recipe
craftCombination_NamesAllInputs(s, combinationId) ==
    IF combinationId \notin DOMAIN combinationsById
    THEN pushHistory(s, "combination", Detail("Unknown combination: ", "", << combinationId >>))
    ELSE LET combo == combinationsById[combinationId]
             missing == SelectSeq(combo.inputs, LAMBDA inputId : ~hasIngredient(s, inputId))
         IN IF Includes(s.craftedCombinationIds, combinationId)
            THEN pushHistory(s, "combination", Detail(" already crafted.", combo.label, << >>))
            ELSE IF Len(missing) > 0
            THEN pushHistory(s, "combination",
                     Detail(" blocked. Missing inputs: ", combo.label, combo.inputs))
            ELSE pushHistory(
                     [ s EXCEPT
                         !.craftedCombinationIds = Append(s.craftedCombinationIds, combinationId),
                         !.craftedArtifactIds =
                             IF Includes(s.craftedArtifactIds, combo.output)
                             THEN s.craftedArtifactIds
                             ELSE Append(s.craftedArtifactIds, combo.output) ],
                     "combination",
                     Detail(" crafted -> ", combo.label, << combo.output >>))

\* craftCombination that records the recipe but not the artifact it makes
craftCombination_DropsArtifact(s, combinationId) ==
    IF combinationId \notin DOMAIN combinationsById
    THEN pushHistory(s, "combination", Detail("Unknown combination: ", "", << combinationId >>))
    ELSE LET combo == combinationsById[combinationId]
             missing == SelectSeq(combo.inputs, LAMBDA inputId : ~hasIngredient(s, inputId))
         IN IF Includes(s.craftedCombinationIds, combinationId)
            THEN pushHistory(s, "combination", Detail(" already crafted.", combo.label, << >>))
            ELSE IF Len(missing) > 0
            THEN pushHistory(s, "combination",
                     Detail(" blocked. Missing inputs: ", combo.label, missing))
            ELSE pushHistory(
                     [ s EXCEPT
                         !.craftedCombinationIds = Append(s.craftedCombinationIds, combinationId) ],
                     "combination",
                     Detail(" crafted -> ", combo.label, << combo.output >>))

craftCombination(s, combinationId) ==
    IF combinationId \notin DOMAIN combinationsById
    THEN pushHistory(s, "combination", Detail("Unknown combination: ", "", << combinationId >>))
    ELSE LET combo == combinationsById[combinationId]
             missing == SelectSeq(combo.inputs, LAMBDA inputId : ~hasIngredient(s, inputId))
         IN IF Includes(s.craftedCombinationIds, combinationId)
            THEN pushHistory(s, "combination", Detail(" already crafted.", combo.label, << >>))
            ELSE IF Len(missing) > 0
            THEN pushHistory(s, "combination",
                     Detail(" blocked. Missing inputs: ", combo.label, missing))
            ELSE pushHistory(
                     [ s EXCEPT
                         !.craftedCombinationIds = Append(s.craftedCombinationIds, combinationId),
                         !.craftedArtifactIds =
                             IF Includes(s.craftedArtifactIds, combo.output)
                             THEN s.craftedArtifactIds
                             ELSE Append(s.craftedArtifactIds, combo.output) ],
                     "combination",
                     Detail(" crafted -> ", combo.label, << combo.output >>))

\* applyModifier without the already-applied check
applyModifier_NoAppliedGuard(s, modifierId) ==
    IF modifierId \notin DOMAIN modifiersById
    THEN pushHistory(s, "modifier", Detail("Unknown modifier: ", "", << modifierId >>))
    ELSE pushHistory(
             [ s EXCEPT !.appliedModifierIds = Append(s.appliedModifierIds, modifierId) ],
             "modifier",
             Detail("Distribution modifier applied: ", modifiersById[modifierId].label, << >>))

\* applyModifier without the unknown-modifier check: reading the label of
\* a modifier that was not found throws a TypeError
applyModifier_NoUnknownGuard(s, modifierId) ==
    IF modifierId \notin DOMAIN modifiersById
    THEN [error |-> "TypeError", id |-> modifierId]
    ELSE LET modifier == modifiersById[modifierId]
         IN IF Includes(s.appliedModifierIds, modifierId)
            THEN pushHistory(s, "modifier", Detail(" already applied.", modifier.label, << >>))
            ELSE pushHistory(
                     [ s EXCEPT !.appliedModifierIds = Append(s.appliedModifierIds, modifierId) ],
                     "modifier",
                     Detail("Distribution modifier applied: ", modifier.label, << >>))

applyModifier(s, modifierId) ==
    IF modifierId \notin DOMAIN modifiersById
    THEN pushHistory(s, "modifier", Detail("Unknown modifier: ", "", << modifierId >>))
    ELSE LET modifier == modifiersById[modifierId]
         IN IF Includes(s.appliedModifierIds, modifierId)
            THEN pushHistory(s, "modifier", Detail(" already applied.", modifier.label, << >>))
            ELSE pushHistory(
                     [ s EXCEPT !.appliedModifierIds = Append(s.appliedModifierIds, modifierId) ],
                     "modifier",
                     Detail("Distribution modifier applied: ", modifier.label, << >>))

\* addReflection that tests the text before trimming it
addReflection_NoTrim(s, reflection) ==
    LET trimmed == trim(reflection)
    IN IF reflection = << >>
       THEN s
       ELSE pushHistory(
                [ s EXCEPT !.reflections = Append(s.reflections, trimmed) ],
                "reflection",
                Detail("", "", trimmed))

\* addReflection without the early return for an empty text
addReflection_LogsBlank(s, reflection) ==
    LET trimmed == trim(reflection)
    IN pushHistory(
           [ s EXCEPT !.reflections = Append(s.reflections, trimmed) ],
           "reflection",
           Detail("", "", trimmed))

addReflection(s, reflection) ==
    LET trimmed == trim(reflection)
    IN IF trimmed = << >>
       THEN s
       ELSE pushHistory(
                [ s EXCEPT !.reflections = Append(s.reflections, trimmed) ],
                "reflection",
                Detail("", "", trimmed))

\* resetRun that logs its entry through pushHistory
resetRun_CountsTurn ==
    pushHistory(createInitialState, "reset", Detail("Run reset to Thought.", "", << >>))

resetRun ==
    [ createInitialState EXCEPT
        !.history = << [ turn |-> 0, action |-> "reset",
                         detail |-> Detail("Run reset to Thought.", "", << >>) ] >> ]

(***************************************************************************)
(* Queries and metric projection.                                          *)
(***************************************************************************)
\* getAvailableCombinations that does not leave out the crafted recipes
getAvailableCombinations_IgnoreCrafted(s) ==
    SelectSeq(combination_layer,
              LAMBDA combo : \A i \in 1..Len(combo.inputs) : hasIngredient(s, combo.inputs[i]))

getAvailableCombinations(s) ==
    SelectSeq(combination_layer,
              LAMBDA combo :
                  IF Includes(s.craftedCombinationIds, combo.id)
                  THEN FALSE
                  ELSE \A i \in 1..Len(combo.inputs) : hasIngredient(s, combo.inputs[i]))

getAvailableModifiers(s) ==
    SelectSeq(distribution, LAMBDA modifier : ~Includes(s.appliedModifierIds, modifier.id))

\* addDeltas that clamps the running sum after every addition
RECURSIVE addDeltas_ClampEachStep(_, _, _)
addDeltas_ClampEachStep(profile, ids, byId) ==
    IF ids = << >>
    THEN profile
    ELSE addDeltas_ClampEachStep(
             IF Head(ids) \in DOMAIN byId
             THEN [ key \in metricKeys |->
                      clamp(profile[key] + byId[Head(ids)].metric_delta[key], range.min, range.max) ]
             ELSE profile,
             Tail(ids), byId)

\* ids.forEach: add the metric delta of every id that byId knows
RECURSIVE addDeltas(_, _, _)
addDeltas(profile, ids, byId) ==
    IF ids = << >>
    THEN profile
    ELSE addDeltas(
             IF Head(ids) \in DOMAIN byId
             THEN [ key \in metricKeys |-> profile[key] + byId[Head(ids)].metric_delta[key] ]
             ELSE profile,
             Tail(ids), byId)

computeCurrentSignalProfile(s) ==
    LET node == getNode(s.currentNodeId)
        base == node.signal_profile
        withCombos == addDeltas(base, s.craftedCombinationIds, combinationsById)
        withModifiers == addDeltas(withCombos, s.appliedModifierIds, modifiersById)
    IN IF IsError(node)
       THEN node
       ELSE [ key \in metricKeys |-> clamp(withModifiers[key], range.min, range.max) ]

emptySignalProfile == Profile(0, 0, 0, 0)

getAdvanceDelta(s) ==
    LET nextNodeId == getNextNodeId(s.currentNodeId)
        currentNode == getNode(s.currentNodeId)
        nextNode == getNode(nextNodeId)
    IN IF nextNodeId = NULL
       THEN [ nextNode |-> NULL, delta |-> emptySignalProfile ]
       ELSE IF IsError(currentNode) THEN currentNode
       ELSE IF IsError(nextNode) THEN nextNode
       ELSE [ nextNode |-> nextNode.id,
              delta |-> [ key \in metricKeys |->
                            nextNode.signal_profile[key] - currentNode.signal_profile[key] ] ]

(***************************************************************************)
(* The run held by the caller.  prev is the state the last reducer call    *)
(* was given, call names that call and its argument.                       *)
(***************************************************************************)
NoText == << >>

Call(op, id, text) == [op |-> op, id |-> id, text |-> text]

\* ids a caller may pass to craftCombination: every recipe and one unknown id
CombinationArgs == {combination_layer[i].id : i \in 1..Len(combination_layer)} \cup {"no_such_combo"}

\* ids a caller may pass to applyModifier: every modifier and one unknown id
ModifierArgs == {distribution[i].id : i \in 1..Len(distribution)} \cup {"no_such_modifier"}

\* texts a caller may pass to addReflection: empty, blank, padded
ReflectionArgs == { << >>, << " ", "\t" >>, << " ", "o", "k", " " >> }

(***************************************************************************)
(* The sliding puzzle: grids, moves and the win check (game/systems), the  *)
(* store (game/GameState), the scene's update and the pointer input.       *)
(* A grid is an array of rows; rows and columns count from 0 as in the     *)
(* source, and -1 is the empty cell.                                       *)
(***************************************************************************)
Rows(grid) == 0..(Len(grid) - 1)

Cols(grid, row) == 0..(Len(grid[row + 1]) - 1)

CellsOf(grid) == UNION { { << row, col >> : col \in Cols(grid, row) } : row \in Rows(grid) }

At(grid, row, col) == grid[row + 1][col + 1]

\* the first empty cell in row-major order, or row 0, col 0 when there is none
findEmpty(grid) ==
    IF \E row \in Rows(grid) : \E col \in Cols(grid, row) : At(grid, row, col) = -1
    THEN LET row == CHOOSE r \in Rows(grid) :
                        /\ \E c \in Cols(grid, r) : At(grid, r, c) = -1
                        /\ \A q \in Rows(grid) :
                               (\E c \in Cols(grid, q) : At(grid, q, c) = -1) => r <= q
             col == CHOOSE c \in Cols(grid, row) :
                        /\ At(grid, row, c) = -1
                        /\ \A d \in Cols(grid, row) : At(grid, row, d) = -1 => c <= d
         IN [ row |-> row, col |-> col ]
    ELSE [ row |-> 0, col |-> 0 ]

abs(n) == IF n < 0 THEN -n ELSE n

\* isAdjacent that also accepts the diagonal neighbours
isAdjacent_Diagonal(a, b) ==
    /\ abs(a.row - b.row) <= 1
    /\ abs(a.col - b.col) <= 1
    /\ a # b

isAdjacent(a, b) ==
    LET dRow == abs(a.row - b.row)
        dCol == abs(a.col - b.col)
    IN (dRow = 1 /\ dCol = 0) \/ (dRow = 0 /\ dCol = 1)

\* Arrays are objects: heap holds the row arrays, and a grid is the array
\* of the positions of its rows in heap.
Deref(heap, refs) == [ i \in 1..Len(refs) |-> heap[refs[i]] ]

\* cloneGrid that copies the outer array and shares the rows
cloneGrid_SharesRows(heap, refs) == [ heap |-> heap, grid |-> refs ]

\* grid.map((row) => [...row]): every row is copied to a new array
cloneGrid(heap, refs) ==
    [ heap |-> heap \o [ i \in 1..Len(refs) |-> heap[refs[i]] ],
      grid |-> [ i \in 1..Len(refs) |-> Len(heap) + i ] ]

\* tryMove(grid, row, col): moved, the grid returned, and input, which is
\* the argument grid as it is after the call
tryMove(grid, row, col) ==
    LET empty == findEmpty(grid)
        refs == [ i \in 1..Len(grid) |-> i ]
    IN IF ~isAdjacent(empty, [ row |-> row, col |-> col ])
       THEN [ moved |-> FALSE, grid |-> grid, input |-> grid ]
       ELSE LET next == cloneGrid(grid, refs)
                filled == [ next.heap EXCEPT
                              ![next.grid[empty.row + 1]][empty.col + 1] = At(grid, row, col) ]
                emptied == [ filled EXCEPT ![next.grid[row + 1]][col + 1] = -1 ]
            IN [ moved |-> TRUE,
                 grid |-> Deref(emptied, next.grid),
                 input |-> Deref(emptied, refs) ]

\* grid.flat()
RECURSIVE gridToTiles(_)
gridToTiles(grid) ==
    IF grid = << >> THEN << >> ELSE Head(grid) \o gridToTiles(Tail(grid))

\* tiles.slice(start, end), start and end counted from 0 and cut at the length
slice(tiles, start, end) ==
    SubSeq(tiles, start + 1, IF end < Len(tiles) THEN end ELSE Len(tiles))

tilesToGrid(tiles, size) ==
    [ row \in 1..size |-> slice(tiles, (row - 1) * size, (row - 1) * size + size) ]

\* isSolved that compares the tiles present and not the lengths
isSolved_IgnoresLength(grid, targetTiles) ==
    LET tiles == gridToTiles(grid)
    IN \A index \in 1..Len(tiles) :
           index <= Len(targetTiles) /\ tiles[index] = targetTiles[index]

isSolved(grid, targetTiles) ==
    LET tiles == gridToTiles(grid)
    IN IF Len(tiles) # Len(targetTiles)
       THEN FALSE
       ELSE \A index \in 1..Len(tiles) : tiles[index] = targetTiles[index]

\* GameState.state as the class initialises it
InitialGameState ==
    [ levelId |-> NULL,
      size |-> 1,
      grid |-> << << -1 >> >>,
      targetTiles |-> << -1 >>,
      moves |-> 0,
      status |-> "idle",
      ui |-> [ showWin |-> FALSE ] ]

\* activeLevel when it is null
NoLevel == [ id |-> NULL, size |-> 0, tiles |-> << >> ]

\* the levels of levelLoader: one level, a 3 x 3 board
level1 == [ id |-> "level1", size |-> 3, tiles |-> << 1, 2, 3, 4, 5, 6, 7, 8, -1 >> ]

levels == << level1 >>

\* the store after startLevel(level)
startLevel(level) ==
    [ levelId |-> level.id,
      size |-> level.size,
      grid |-> tilesToGrid(level.tiles, level.size),
      targetTiles |-> level.tiles,
      moves |-> 0,
      status |-> "playing",
      ui |-> [ showWin |-> FALSE ] ]

resetLevel(data, level) == IF level = NoLevel THEN data ELSE startLevel(level)

setGrid(data, grid) == [ data EXCEPT !.grid = grid ]

incrementMoves(data) == [ data EXCEPT !.moves = data.moves + 1 ]

setWon(data) == [ data EXCEPT !.status = "won", !.ui.showWin = TRUE ]

hideWin(data) == [ data EXCEPT !.ui.showWin = FALSE ]

\* The pointer is over a cell of the board, << row, col >>, or over none.
OffBoard == << >>

InitialPointer ==
    [ at |-> OffBoard, isDown |-> FALSE, justPressed |-> FALSE, justReleased |-> FALSE ]

\* the ray from the pointer hits the tile of a cell that is not empty
Hits(data, at) ==
    /\ at \in CellsOf(data.grid)
    /\ At(data.grid, at[1], at[2]) # -1

\* GameScene.update that increments moves before it knows the tile moved
sceneUpdate_CountsClicks(data, input) ==
    IF ~input.justPressed \/ ~Hits(data, input.at)
    THEN data
    ELSE LET move == tryMove(data.grid, input.at[1], input.at[2])
             counted == incrementMoves(setGrid(data, move.grid))
         IN IF isSolved(move.grid, counted.targetTiles) /\ move.moved THEN setWon(counted)
            ELSE counted

\* GameScene.update(input, renderer) on the store
sceneUpdate(data, input) ==
    IF ~input.justPressed \/ ~Hits(data, input.at)
    THEN data
    ELSE LET move == tryMove(data.grid, input.at[1], input.at[2])
             counted == incrementMoves(setGrid(data, move.grid))
         IN IF ~move.moved THEN data
            ELSE IF isSolved(move.grid, counted.targetTiles) THEN setWon(counted)
            ELSE counted

\* updateFrame that leaves justPressed as it is
updateFrame_KeepsPressed(input) == [ input EXCEPT !.justReleased = FALSE ]

updateFrame(input) == [ input EXCEPT !.justPressed = FALSE, !.justReleased = FALSE ]

\* the update callback of the loop, run steps times: scene.update, then
\* input.updateFrame
RECURSIVE updateSteps(_, _, _)
updateSteps(data, input, steps) ==
    IF steps = 0
    THEN [ data |-> data, input |-> input ]
    ELSE updateSteps(sceneUpdate(data, input), updateFrame(input), steps - 1)

\* no function of game/systems has been called: probe holds the function
\* called last with its arguments and results, the grid the calls began
\* with and the number of tryMove calls
NoProbe ==
    [ fn |-> NULL, grid |-> << >>, row |-> 0, col |-> 0, targetTiles |-> << >>,
      moved |-> FALSE, next |-> << >>, input |-> << >>, solved |-> FALSE,
      start |-> << >>, calls |-> 0 ]

\* the puzzle before GameCanvas is mounted
PuzzleIdle ==
    /\ gameState = InitialGameState
    /\ activeLevel = NoLevel
    /\ pointer = InitialPointer
    /\ probe = NoProbe

\* nothing has been thrown
NotThrown == [error |-> NULL, id |-> NULL]

\* pendingGateKey when no gate is open
NoGate == << >>

\* the App's gate fields as useState initialises them
GateClosed ==
    /\ passedGateKeys = << >>
    /\ pendingGateKey = NoGate
    /\ gateAnswer = NoText

\* the caller gets the state a reducer returns; an Error it throws is not
\* caught, and ends the run
Returns(result) ==
    IF IsError(result)
    THEN state' = state /\ thrown' = result
    ELSE state' = result /\ thrown' = thrown

Init ==
    /\ dictionary = ShortDictionary
    /\ rules = ShortRules
    /\ state = createInitialState
    /\ prev = createInitialState
    /\ call = Call("createInitialState", NULL, NoText)
    /\ thrown = NotThrown
    /\ GateClosed
    /\ PuzzleIdle

Advance ==
    /\ thrown = NotThrown
    /\ state.turn < MaxTurn
    /\ Returns(advanceOneStep(state))
    /\ prev' = state
    /\ call' = Call("advance", NULL, NoText)
    /\ UNCHANGED <<dictionary, rules, passedGateKeys, pendingGateKey, gateAnswer, gameState, activeLevel, pointer, probe>>

Craft ==
    /\ thrown = NotThrown
    /\ state.turn < MaxTurn
    /\ \E combinationId \in CombinationArgs :
           /\ Returns(craftCombination(state, combinationId))
           /\ call' = Call("craftCombination", combinationId, NoText)
    /\ prev' = state
    /\ UNCHANGED <<dictionary, rules, passedGateKeys, pendingGateKey, gateAnswer, gameState, activeLevel, pointer, probe>>

Apply ==
    /\ thrown = NotThrown
    /\ state.turn < MaxTurn
    /\ \E modifierId \in ModifierArgs :
           /\ Returns(applyModifier(state, modifierId))
           /\ call' = Call("applyModifier", modifierId, NoText)
    /\ prev' = state
    /\ UNCHANGED <<dictionary, rules, passedGateKeys, pendingGateKey, gateAnswer, gameState, activeLevel, pointer, probe>>

Reflect ==
    /\ thrown = NotThrown
    /\ state.turn < MaxTurn
    /\ \E reflection \in ReflectionArgs :
           /\ Returns(addReflection(state, reflection))
           /\ call' = Call("addReflection", NULL, reflection)
    /\ prev' = state
    /\ UNCHANGED <<dictionary, rules, passedGateKeys, pendingGateKey, gateAnswer, gameState, activeLevel, pointer, probe>>

Reset ==
    /\ thrown = NotThrown
    /\ Returns(resetRun)
    /\ prev' = state
    /\ call' = Call("reset", NULL, NoText)
    /\ UNCHANGED <<dictionary, rules, passedGateKeys, pendingGateKey, gateAnswer, gameState, activeLevel, pointer, probe>>

Next == Advance \/ Craft \/ Apply \/ Reflect \/ Reset

Spec == Init /\ [][Next]_vars

(***************************************************************************)
(* A run in which advance keeps being called and reset is not: the other   *)
(* reducers are called while turn is below MaxLiveTurn, advance until turn *)
(* is MaxTurn + NumStages.                                                 *)
(***************************************************************************)
MaxLiveTurn == 3

KeepAdvancing ==
    /\ thrown = NotThrown
    /\ state.turn < MaxTurn + NumStages
    /\ Returns(advanceOneStep(state))
    /\ prev' = state
    /\ call' = Call("advance", NULL, NoText)
    /\ UNCHANGED <<dictionary, rules, passedGateKeys, pendingGateKey, gateAnswer, gameState, activeLevel, pointer, probe>>

Interleaved ==
    /\ state.turn < MaxLiveTurn
    /\ (Craft \/ Apply \/ Reflect)

LiveNext == KeepAdvancing \/ Interleaved

LiveSpec == Init /\ [][LiveNext]_vars /\ WF_vars(KeepAdvancing)

(***************************************************************************)
(* Runs over more than one configuration.  The documents are imported as   *)
(* they are; whatever they hold, createInitialState starts the run at      *)
(* rules.run.start_node.  Besides the reducers, the caller evaluates the   *)
(* queries that every render of the App evaluates.  Reducers are called    *)
(* while turn is below MaxConfigTurn.                                      *)
(***************************************************************************)
MaxConfigTurn == 3

UnknownStage == "no_such_stage"

\* ShortRules with an edge from the last stage back to the first
LoopRules ==
    [ ShortRules EXCEPT
        !.progression_edges = Append(@, << SpineIds[NumStages], SpineIds[1] >>) ]

\* rules for ShortDictionary: two that name only its stages, and three that
\* name a stage it does not have, as the start node, as the target of the
\* last edge and as the source of the first
ConfigRules ==
    { ShortRules,
      LoopRules,
      [ ShortRules EXCEPT !.run.start_node = UnknownStage ],
      [ ShortRules EXCEPT !.progression_edges[NumStages - 1][2] = UnknownStage ],
      [ ShortRules EXCEPT !.progression_edges[1][1] = UnknownStage ] }

QueryCalls == {"getNode", "computeCurrentSignalProfile", "getAdvanceDelta"}

QueryResult(query, s) ==
    CASE query = "getNode" -> getNode(s.currentNodeId)
      [] query = "computeCurrentSignalProfile" -> computeCurrentSignalProfile(s)
      [] query = "getAdvanceDelta" -> getAdvanceDelta(s)

ConfigInit ==
    /\ dictionary = ShortDictionary
    /\ rules \in ConfigRules
    /\ state = createInitialState
    /\ prev = createInitialState
    /\ call = Call("createInitialState", NULL, NoText)
    /\ thrown = NotThrown
    /\ GateClosed
    /\ PuzzleIdle

Query ==
    /\ thrown = NotThrown
    /\ \E query \in QueryCalls :
           /\ thrown' = IF IsError(QueryResult(query, state))
                         THEN QueryResult(query, state)
                         ELSE thrown
           /\ call' = Call(query, NULL, NoText)
    /\ prev' = state
    /\ UNCHANGED <<state, dictionary, rules, passedGateKeys, pendingGateKey, gateAnswer, gameState, activeLevel, pointer, probe>>

ShortRun ==
    /\ state.turn < MaxConfigTurn
    /\ (Advance \/ Craft \/ Apply \/ Reflect)

ConfigNext == Query \/ ShortRun \/ Reset

ConfigSpec == ConfigInit /\ [][ConfigNext]_vars

(***************************************************************************)
(* The App.  Its spine is the last formats of the README spine, from       *)
(* Website to Math, so that the three gated edges are within MaxTurn       *)
(* advances of the start node.  Each event handler runs on the values of   *)
(* the last render, and the render that its updates cause is complete      *)
(* before the next event is handled.                                       *)
(***************************************************************************)
GatedIds == << "website", "product", "solution", "protocol", "math" >>

IndexOf(id) == CHOOSE i \in 1..Len(SpineIds) : SpineIds[i] = id

GatedDictionary ==
    [ core_spine |-> [ k \in 1..Len(GatedIds) |-> SpineNode(IndexOf(GatedIds[k]), k) ] ]

GatedRules ==
    [ run |-> [ start_node |-> GatedIds[1] ],
      progression_edges |-> [ k \in 1..(Len(GatedIds) - 1) |-> << GatedIds[k], GatedIds[k + 1] >> ] ]

gateKey(from, to) == << from, "->", to >>

\* the keys of gateChallenges
gateChallenges ==
    { gateKey("product", "solution"),
      gateKey("solution", "protocol"),
      gateKey("protocol", "math") }

Digits == {"0", "1", "2", "3", "4", "5", "6", "7", "8", "9"}

LowerCase ==
    << "a", "b", "c", "d", "e", "f", "g", "h", "i", "j", "k", "l", "m",
       "n", "o", "p", "q", "r", "s", "t", "u", "v", "w", "x", "y", "z" >>

UpperCase ==
    << "A", "B", "C", "D", "E", "F", "G", "H", "I", "J", "K", "L", "M",
       "N", "O", "P", "Q", "R", "S", "T", "U", "V", "W", "X", "Y", "Z" >>

\* the character that the i flag of a regular expression compares
FoldCase(char) ==
    IF \E k \in 1..Len(UpperCase) : UpperCase[k] = char
    THEN LowerCase[CHOOSE k \in 1..Len(UpperCase) : UpperCase[k] = char]
    ELSE char

\* /word/i.test(text)
TestIgnoreCase(word, text) ==
    \E i \in 1..(Len(text) - Len(word) + 1) :
        \A j \in 1..Len(word) : FoldCase(text[i + j - 1]) = word[j]

\* /[...]/.test(text)
TestAnyOf(chars, text) == \E i \in 1..Len(text) : text[i] \in chars

\* gateChallenges[key].validate(answer)
validate(key, answer) ==
    CASE key = gateKey("product", "solution") ->
             /\ TestAnyOf(Digits, answer)
             /\ \/ TestIgnoreCase(<< "-", ">" >>, answer)
                \/ TestIgnoreCase(<< "t", "o" >>, answer)
                \/ TestIgnoreCase(<< "f", "r", "o", "m" >>, answer)
             /\ \/ TestIgnoreCase(<< "d", "a", "y" >>, answer)
                \/ TestIgnoreCase(<< "w", "e", "e", "k" >>, answer)
                \/ TestIgnoreCase(<< "m", "o", "n", "t", "h" >>, answer)
                \/ TestIgnoreCase(<< "y", "e", "a", "r" >>, answer)
      [] key = gateKey("solution", "protocol") ->
             /\ TestIgnoreCase(<< "w", "h", "e", "n" >>, answer)
             /\ TestIgnoreCase(<< "m", "u", "s", "t" >>, answer)
      [] key = gateKey("protocol", "math") ->
             /\ TestAnyOf(Elems(LowerCase) \cup Elems(UpperCase), answer)
             /\ TestAnyOf({"=", "<", ">", "+", "-", "*", "/"}, answer)

\* what the user types into the gate's input, or takes from a template
GateAnswers ==
    { << " ", " " >>,
      << " ", "2", "-", ">", "4", " ", "W", "e", "e", "k" >>,
      << "4", " ", "w", "e", "e", "k", "s" >>,
      << "W", "h", "e", "n", " ", "x", " ", "M", "U", "S", "T" >>,
      << "w", "h", "e", "n" >>,
      << "x", "=", "y", " " >>,
      << "=", " " >> }

AppInit ==
    /\ dictionary = GatedDictionary
    /\ rules = GatedRules
    /\ state = createInitialState
    /\ prev = createInitialState
    /\ call = Call("createInitialState", NULL, NoText)
    /\ thrown = NotThrown
    /\ GateClosed
    /\ PuzzleIdle

performAdvance ==
    IF getNextNodeId(state.currentNodeId) = NULL
    THEN UNCHANGED <<state, thrown>>
    ELSE Returns(advanceOneStep(state))

requestAdvance ==
    LET nextNodeId == getNextNodeId(state.currentNodeId)
        key == gateKey(state.currentNodeId, nextNodeId)
    IN IF nextNodeId = NULL
       THEN UNCHANGED <<state, thrown, passedGateKeys, pendingGateKey, gateAnswer>>
       ELSE IF key \in gateChallenges /\ ~Includes(passedGateKeys, key)
       THEN /\ pendingGateKey' = key
            /\ gateAnswer' = NoText
            /\ UNCHANGED <<state, thrown, passedGateKeys>>
       ELSE /\ performAdvance
            /\ UNCHANGED <<passedGateKeys, pendingGateKey, gateAnswer>>

\* a reducer call of the handler would be within MaxTurn
WithinTurns == state.turn < MaxTurn \/ getNextNodeId(state.currentNodeId) = NULL

\* a click on the scene, routed to onAdvance when it hits the next node
ClickNextNode ==
    /\ thrown = NotThrown
    /\ WithinTurns
    /\ getNextNodeId(state.currentNodeId) # NULL
    /\ requestAdvance
    /\ prev' = state
    /\ call' = Call("click", NULL, NoText)
    /\ UNCHANGED <<dictionary, rules, gameState, activeLevel, pointer, probe>>

\* Space or ArrowRight outside an input
KeyAdvance ==
    /\ thrown = NotThrown
    /\ WithinTurns
    /\ requestAdvance
    /\ prev' = state
    /\ call' = Call("keydown", NULL, NoText)
    /\ UNCHANGED <<dictionary, rules, gameState, activeLevel, pointer, probe>>

\* the gate's input and its template buttons
SetGateAnswer ==
    /\ thrown = NotThrown
    /\ pendingGateKey \in gateChallenges
    /\ \E answer \in GateAnswers :
           /\ gateAnswer' = answer
           /\ call' = Call("setGateAnswer", NULL, answer)
    /\ prev' = state
    /\ UNCHANGED <<state, thrown, dictionary, rules, passedGateKeys, pendingGateKey, gameState, activeLevel, pointer, probe>>

\* the gate's Cancel button
CancelGate ==
    /\ thrown = NotThrown
    /\ pendingGateKey \in gateChallenges
    /\ pendingGateKey' = NoGate
    /\ prev' = state
    /\ call' = Call("cancelGate", NULL, NoText)
    /\ UNCHANGED <<state, thrown, dictionary, rules, passedGateKeys, gateAnswer, gameState, activeLevel, pointer, probe>>

\* handleGateSubmit that closes the gate when the answer fails
handleGateSubmit_ClosesOnFailure ==
    /\ thrown = NotThrown
    /\ WithinTurns
    /\ pendingGateKey \in gateChallenges
    /\ IF ~validate(pendingGateKey, trim(gateAnswer))
       THEN /\ pendingGateKey' = NoGate
            /\ UNCHANGED <<state, thrown, passedGateKeys, gateAnswer>>
       ELSE /\ passedGateKeys' = IF Includes(passedGateKeys, pendingGateKey)
                                 THEN passedGateKeys
                                 ELSE Append(passedGateKeys, pendingGateKey)
            /\ pendingGateKey' = NoGate
            /\ gateAnswer' = NoText
            /\ performAdvance
    /\ prev' = state
    /\ call' = Call("handleGateSubmit", NULL, gateAnswer)
    /\ UNCHANGED <<dictionary, rules, gameState, activeLevel, pointer, probe>>

handleGateSubmit ==
    /\ thrown = NotThrown
    /\ WithinTurns
    /\ pendingGateKey \in gateChallenges
    /\ IF ~validate(pendingGateKey, trim(gateAnswer))
       THEN UNCHANGED <<state, thrown, passedGateKeys, pendingGateKey, gateAnswer>>
       ELSE /\ passedGateKeys' = IF Includes(passedGateKeys, pendingGateKey)
                                 THEN passedGateKeys
                                 ELSE Append(passedGateKeys, pendingGateKey)
            /\ pendingGateKey' = NoGate
            /\ gateAnswer' = NoText
            /\ performAdvance
    /\ prev' = state
    /\ call' = Call("handleGateSubmit", NULL, gateAnswer)
    /\ UNCHANGED <<dictionary, rules, gameState, activeLevel, pointer, probe>>

handleCraft ==
    /\ thrown = NotThrown
    /\ state.turn < MaxTurn
    /\ \E combinationId \in CombinationArgs :
           /\ IF combinationId \in DOMAIN combinationsById
              THEN Returns(craftCombination(state, combinationId))
              ELSE UNCHANGED <<state, thrown>>
           /\ call' = Call("handleCraft", combinationId, NoText)
    /\ prev' = state
    /\ UNCHANGED <<dictionary, rules, passedGateKeys, pendingGateKey, gateAnswer, gameState, activeLevel, pointer, probe>>

handleModifier ==
    /\ thrown = NotThrown
    /\ state.turn < MaxTurn
    /\ \E modifierId \in ModifierArgs :
           /\ IF modifierId \in DOMAIN modifiersById
              THEN Returns(applyModifier(state, modifierId))
              ELSE UNCHANGED <<state, thrown>>
           /\ call' = Call("handleModifier", modifierId, NoText)
    /\ prev' = state
    /\ UNCHANGED <<dictionary, rules, passedGateKeys, pendingGateKey, gateAnswer, gameState, activeLevel, pointer, probe>>

\* handleReset that leaves passedGateKeys as they are
handleReset_KeepsPassedGates ==
    /\ thrown = NotThrown
    /\ Returns(resetRun)
    /\ pendingGateKey' = NoGate
    /\ gateAnswer' = NoText
    /\ prev' = state
    /\ call' = Call("handleReset", NULL, NoText)
    /\ UNCHANGED <<dictionary, rules, passedGateKeys, gameState, activeLevel, pointer, probe>>

handleReset ==
    /\ thrown = NotThrown
    /\ Returns(resetRun)
    /\ passedGateKeys' = << >>
    /\ pendingGateKey' = NoGate
    /\ gateAnswer' = NoText
    /\ prev' = state
    /\ call' = Call("handleReset", NULL, NoText)
    /\ UNCHANGED <<dictionary, rules, gameState, activeLevel, pointer, probe>>

AppNext ==
    \/ ClickNextNode
    \/ KeyAdvance
    \/ SetGateAnswer
    \/ CancelGate
    \/ handleGateSubmit
    \/ handleCraft
    \/ handleModifier
    \/ handleReset

AppSpec == AppInit /\ [][AppNext]_vars

(***************************************************************************)
(* The puzzle.  GameCanvas mounts once: it binds the input, starts the     *)
(* first level and starts the loop.  From then on pointer events, the Hud  *)
(* buttons and animation frames are handled one at a time, in any order.   *)
(* A frame runs the update callback for as many fixed steps as the time    *)
(* since the last frame holds, possibly none.  The story variables stay    *)
(* as they were initialised.                                               *)
(***************************************************************************)
\* no frame moves a tile once moves has reached MaxMoves
MaxMoves == 4
\* the largest number of update steps that one frame runs
MaxSteps == 2

\* where the pointer can be: over a cell of the board of level1, or off it
Positions == CellsOf(tilesToGrid(level1.tiles, level1.size)) \cup {OffBoard}

PuzzleInit ==
    /\ dictionary = ShortDictionary
    /\ rules = ShortRules
    /\ state = createInitialState
    /\ prev = createInitialState
    /\ call = Call("createInitialState", NULL, NoText)
    /\ thrown = NotThrown
    /\ GateClosed
    /\ PuzzleIdle

Mounted == call.op # "createInitialState"

\* the effect of GameCanvas
Mount ==
    /\ ~Mounted
    /\ gameState' = startLevel(levels[1])
    /\ activeLevel' = levels[1]
    /\ call' = Call("mount", NULL, NoText)
    /\ UNCHANGED <<state, prev, thrown, dictionary, rules,
                   passedGateKeys, pendingGateKey, gateAnswer, pointer, probe>>

\* the level select of the Hud
SelectLevel ==
    /\ Mounted
    /\ \E i \in 1..Len(levels) :
           /\ gameState' = startLevel(levels[i])
           /\ activeLevel' = levels[i]
           /\ call' = Call("startLevel", levels[i].id, NoText)
    /\ UNCHANGED <<state, prev, thrown, dictionary, rules,
                   passedGateKeys, pendingGateKey, gateAnswer, pointer, probe>>

\* the Restart button of the Hud
Restart ==
    /\ Mounted
    /\ gameState' = resetLevel(gameState, activeLevel)
    /\ call' = Call("resetLevel", NULL, NoText)
    /\ UNCHANGED <<state, prev, thrown, dictionary, rules,
                   passedGateKeys, pendingGateKey, gateAnswer, activeLevel, pointer, probe>>

\* gameState.hideWin(), as the listeners of the store see it
HideWin ==
    /\ Mounted
    /\ gameState.ui.showWin
    /\ gameState' = hideWin(gameState)
    /\ call' = Call("hideWin", NULL, NoText)
    /\ UNCHANGED <<state, prev, thrown, dictionary, rules,
                   passedGateKeys, pendingGateKey, gateAnswer, activeLevel, pointer, probe>>

\* the Play again button of the win card
PlayAgain ==
    /\ Mounted
    /\ gameState.ui.showWin
    /\ gameState' = resetLevel(hideWin(gameState), activeLevel)
    /\ call' = Call("playAgain", NULL, NoText)
    /\ UNCHANGED <<state, prev, thrown, dictionary, rules,
                   passedGateKeys, pendingGateKey, gateAnswer, activeLevel, pointer, probe>>

PointerDown ==
    /\ Mounted
    /\ \E at \in Positions :
           pointer' = [ pointer EXCEPT !.isDown = TRUE, !.justPressed = TRUE, !.at = at ]
    /\ call' = Call("pointerdown", NULL, NoText)
    /\ UNCHANGED <<state, prev, thrown, dictionary, rules,
                   passedGateKeys, pendingGateKey, gateAnswer, gameState, activeLevel, probe>>

PointerUp ==
    /\ Mounted
    /\ pointer.isDown
    /\ \E at \in Positions :
           pointer' = [ pointer EXCEPT !.isDown = FALSE, !.justReleased = TRUE, !.at = at ]
    /\ call' = Call("pointerup", NULL, NoText)
    /\ UNCHANGED <<state, prev, thrown, dictionary, rules,
                   passedGateKeys, pendingGateKey, gateAnswer, gameState, activeLevel, probe>>

PointerMove ==
    /\ Mounted
    /\ \E at \in Positions : pointer' = [ pointer EXCEPT !.at = at ]
    /\ call' = Call("pointermove", NULL, NoText)
    /\ UNCHANGED <<state, prev, thrown, dictionary, rules,
                   passedGateKeys, pendingGateKey, gateAnswer, gameState, activeLevel, probe>>

\* an animation frame that runs at least one update step
Frame ==
    /\ Mounted
    /\ gameState.moves < MaxMoves
    /\ \E steps \in 1..MaxSteps :
           /\ gameState' = updateSteps(gameState, pointer, steps).data
           /\ pointer' = updateSteps(gameState, pointer, steps).input
    /\ call' = Call("frame", NULL, NoText)
    /\ UNCHANGED <<state, prev, thrown, dictionary, rules,
                   passedGateKeys, pendingGateKey, gateAnswer, activeLevel, probe>>

\* an animation frame that comes before a whole timestep has passed
IdleFrame ==
    /\ Mounted
    /\ call' = Call("idleFrame", NULL, NoText)
    /\ UNCHANGED <<state, prev, thrown, dictionary, rules, passedGateKeys,
                   pendingGateKey, gateAnswer, gameState, activeLevel, pointer, probe>>

PuzzleNext ==
    \/ Mount
    \/ SelectLevel
    \/ Restart
    \/ HideWin
    \/ PlayAgain
    \/ PointerDown
    \/ PointerUp
    \/ PointerMove
    \/ Frame
    \/ IdleFrame

PuzzleSpec == PuzzleInit /\ [][PuzzleNext]_vars

(***************************************************************************)
(* The functions of game/systems called on their own: tryMove on a grid    *)
(* and then on the grid it returned, up to MaxMoves times, and isSolved.   *)
(***************************************************************************)
\* every 2 x 2 grid of two tiles and the empty cell, with none, one or
\* several empty cells; the board of level1; the grid of the MoveSystem
\* test; the grid of an idle store; a grid with rows of different lengths
ProbeGrids ==
    [ 1..2 -> [ 1..2 -> {-1, 1, 2} ] ]
        \cup { tilesToGrid(level1.tiles, level1.size),
               << << 1, 2, 3 >>, << 4, -1, 6 >>, << 7, 5, 8 >> >>,
               InitialGameState.grid,
               << << 1, -1 >>, << 2 >> >> }

\* target lists for a grid: its tiles, its tiles without the last, with
\* one more, with the first one changed, and no tiles
ProbeTargets(grid) ==
    LET tiles == gridToTiles(grid)
    IN { tiles,
         SubSeq(tiles, 1, Len(tiles) - 1),
         Append(tiles, -1),
         [ tiles EXCEPT ![1] = 9 ],
         << >> }

ProbeInit ==
    /\ dictionary = ShortDictionary
    /\ rules = ShortRules
    /\ state = createInitialState
    /\ prev = createInitialState
    /\ call = Call("createInitialState", NULL, NoText)
    /\ thrown = NotThrown
    /\ GateClosed
    /\ gameState = InitialGameState
    /\ activeLevel = NoLevel
    /\ pointer = InitialPointer
    /\ \E grid \in ProbeGrids :
           probe = [ NoProbe EXCEPT !.grid = grid, !.next = grid, !.start = grid ]

\* tryMove on the grid that the last call left
CallTryMove ==
    /\ probe.calls < MaxMoves
    /\ \E cell \in CellsOf(probe.next) :
           LET result == tryMove(probe.next, cell[1], cell[2])
           IN probe' = [ probe EXCEPT
                           !.fn = "tryMove",
                           !.grid = probe.next,
                           !.row = cell[1],
                           !.col = cell[2],
                           !.moved = result.moved,
                           !.next = result.grid,
                           !.input = result.input,
                           !.targetTiles = NoProbe.targetTiles,
                           !.solved = NoProbe.solved,
                           !.calls = probe.calls + 1 ]
    /\ UNCHANGED <<state, prev, call, thrown, dictionary, rules, passedGateKeys,
                   pendingGateKey, gateAnswer, gameState, activeLevel, pointer>>

\* isSolved on the grid that the last call left
CallIsSolved ==
    /\ \E targetTiles \in ProbeTargets(probe.next) \cup ProbeTargets(probe.start) :
           probe' = [ probe EXCEPT
                        !.fn = "isSolved",
                        !.grid = probe.next,
                        !.targetTiles = targetTiles,
                        !.solved = isSolved(probe.next, targetTiles) ]
    /\ UNCHANGED <<state, prev, call, thrown, dictionary, rules, passedGateKeys,
                   pendingGateKey, gateAnswer, gameState, activeLevel, pointer>>

ProbeNext == CallTryMove \/ CallIsSolved

ProbeSpec == ProbeInit /\ [][ProbeNext]_vars

(***************************************************************************)
(* Vocabulary of the properties.                                           *)
(***************************************************************************)
ReducerCalls == {"advance", "craftCombination", "applyModifier", "addReflection"}

\* the order field of a stage
Order(nodeId) == getNode(nodeId).order

\* number of entries of a history that satisfy Test
CountEntries(history, Test(_)) ==
    Cardinality({i \in 1..Len(history) : Test(history[i])})

\* every id of inputs is in visitedNodeIds united with craftedArtifactIds
InputsPresent(s, inputs) ==
    Elems(inputs) \subseteq (Elems(s.visitedNodeIds) \cup Elems(s.craftedArtifactIds))

KnownCombination(id) == \E i \in 1..Len(combination_layer) : combination_layer[i].id = id
KnownModifier(id) == \E i \in 1..Len(distribution) : distribution[i].id = id
RecipeOf(id) == CHOOSE combo \in Elems(combination_layer) : combo.id = id

\* the call c on the state p is an illegal action
Illegal(p, c) ==
    \/ c.op = "advance" /\ Order(p.currentNodeId) = Len(core_spine)
    \/ /\ c.op = "craftCombination"
       /\ \/ ~KnownCombination(c.id)
          \/ c.id \in Elems(p.craftedCombinationIds)
          \/ ~InputsPresent(p, RecipeOf(c.id).inputs)
    \/ /\ c.op = "applyModifier"
       /\ (~KnownModifier(c.id) \/ c.id \in Elems(p.appliedModifierIds))

\* s is p with exactly one more history entry
OneMoreEntry(p, s) ==
    /\ Len(s.history) = Len(p.history) + 1
    /\ SubSeq(s.history, 1, Len(p.history)) = p.history

\* s and p agree on every field but history and turn
SameRun(p, s) ==
    /\ s.currentNodeId = p.currentNodeId
    /\ s.visitedNodeIds = p.visitedNodeIds
    /\ s.craftedCombinationIds = p.craftedCombinationIds
    /\ s.craftedArtifactIds = p.craftedArtifactIds
    /\ s.appliedModifierIds = p.appliedModifierIds
    /\ s.reflections = p.reflections

\* C1: over reducer calls the order of the current stage never decreases and
\* rises by at most 1 per call; only an advance changes the stage, to the
\* stage of order one higher; a stage of order k is reached after no fewer
\* than k - 1 advance calls.
C1_MonotonicSpine ==
    /\ call.op \in ReducerCalls =>
           /\ Order(state.currentNodeId) - Order(prev.currentNodeId) \in {0, 1}
           /\ state.currentNodeId # prev.currentNodeId =>
                  /\ call.op = "advance"
                  /\ Order(state.currentNodeId) = Order(prev.currentNodeId) + 1
    /\ Order(state.currentNodeId) - Order(start_node)
           <= CountEntries(state.history, LAMBDA e : e.action = "advance")

C1_Witness ==
    /\ call.op = "advance"
    /\ Order(prev.currentNodeId) = 2
    /\ Order(state.currentNodeId) = 3

CraftChanged(p, s) ==
    \/ s.craftedCombinationIds # p.craftedCombinationIds
    \/ s.craftedArtifactIds # p.craftedArtifactIds

\* C3 as stated: craftCombination of a known recipe changes the crafted
\* lists iff every input of the recipe is visited or crafted.
C3_CraftIffInputs ==
    (call.op = "craftCombination" /\ KnownCombination(call.id)) =>
        (CraftChanged(prev, state) <=> InputsPresent(prev, RecipeOf(call.id).inputs))

\* C3 amended: craftCombination of a known recipe changes the crafted lists
\* iff the recipe is not yet crafted and every input is visited or crafted.
C3_CraftIffInputsAndNew ==
    (call.op = "craftCombination" /\ KnownCombination(call.id)) =>
        (CraftChanged(prev, state) <=>
             /\ call.id \notin Elems(prev.craftedCombinationIds)
             /\ InputsPresent(prev, RecipeOf(call.id).inputs))

\* a recipe with a crafted artifact among its inputs is crafted
C3_Witness ==
    /\ call.op = "craftCombination"
    /\ call.id = "essay"
    /\ "mind_map" \in Elems(prev.craftedArtifactIds)
    /\ CraftChanged(prev, state)

\* C4: currentNodeId is a member of visitedNodeIds.
C4_CurrentIsVisited == state.currentNodeId \in Elems(state.visitedNodeIds)

C4_Witness ==
    /\ call.op = "advance"
    /\ state.currentNodeId # prev.currentNodeId
    /\ Len(state.visitedNodeIds) = 3

\* C5: visitedNodeIds, craftedCombinationIds, craftedArtifactIds and
\* appliedModifierIds never hold an entry twice.
C5_NoDuplicateEntries ==
    /\ NoDuplicates(state.visitedNodeIds)
    /\ NoDuplicates(state.craftedCombinationIds)
    /\ NoDuplicates(state.craftedArtifactIds)
    /\ NoDuplicates(state.appliedModifierIds)

\* a second recipe with the same output is crafted
C5_Witness ==
    /\ call.op = "craftCombination"
    /\ KnownCombination(call.id)
    /\ state.craftedCombinationIds = Append(prev.craftedCombinationIds, call.id)
    /\ RecipeOf(call.id).output \in Elems(prev.craftedArtifactIds)

\* the text is empty or holds white space only
Blank(text) == \A i \in 1..Len(text) : text[i] \in WhiteSpace

\* C6: advance, craftCombination, applyModifier and addReflection with
\* non-blank text append exactly one history entry, accepted or rejected;
\* addReflection with blank text leaves the length of history unchanged.
C6_HistoryAppendOnly ==
    /\ (\/ call.op \in {"advance", "craftCombination", "applyModifier"}
        \/ call.op = "addReflection" /\ ~Blank(call.text)) => OneMoreEntry(prev, state)
    /\ (call.op = "addReflection" /\ Blank(call.text)) =>
           Len(state.history) = Len(prev.history)

\* a whitespace-only reflection on a run that has a history
C6_Witness ==
    /\ call.op = "addReflection"
    /\ call.text # << >>
    /\ Blank(call.text)
    /\ Len(prev.history) > 1

\* C7: turn is the number of history entries that are not reset entries
\* (all of them in a run begun by createInitialState, all but the first in a
\* run begun by reset); turn never decreases within a run; the last history
\* entry carries the state's turn.
C7_TurnCountsHistory ==
    /\ state.turn = CountEntries(state.history, LAMBDA e : e.action # "reset")
    /\ state.turn = IF state.history # << >> /\ state.history[1].action = "reset"
                    THEN Len(state.history) - 1
                    ELSE Len(state.history)
    /\ state.history # << >> => state.history[Len(state.history)].turn = state.turn
    /\ call.op \in ReducerCalls => state.turn >= prev.turn

\* a run begun by reset that has gone on for three calls
C7_Witness ==
    /\ state.history # << >>
    /\ state.history[1].action = "reset"
    /\ call.op \in ReducerCalls
    /\ state.turn = 3

\* the base profile of a stage as configured
BaseProfile(nodeId) ==
    (CHOOSE node \in Elems(core_spine) : node.id = nodeId).signal_profile

RECURSIVE SumDelta(_, _, _)
SumDelta(ids, entries, key) ==
    IF ids = << >>
    THEN 0
    ELSE (CHOOSE e \in Elems(entries) : e.id = Head(ids)).metric_delta[key]
             + SumDelta(Tail(ids), entries, key)

\* base profile plus every crafted and applied delta, not clamped
RawSignal(s) ==
    [ key \in metricKeys |->
        BaseProfile(s.currentNodeId)[key]
            + SumDelta(s.craftedCombinationIds, combination_layer, key)
            + SumDelta(s.appliedModifierIds, distribution, key) ]

\* C8: every component of computeCurrentSignalProfile lies in [min, max].
C8_ProfileInRange ==
    \A key \in metricKeys :
        /\ range.min <= computeCurrentSignalProfile(state)[key]
        /\ computeCurrentSignalProfile(state)[key] <= range.max

\* the deltas have carried one component above max and another below min
C8_Witness ==
    /\ \E key \in metricKeys : RawSignal(state)[key] > range.max
    /\ \E key \in metricKeys : RawSignal(state)[key] < range.min

\* C9: computeCurrentSignalProfile is, per component, the base profile of the
\* current stage plus the deltas of all crafted recipes and applied
\* modifiers, clamped once at the end.
C9_ProfileIsClampedSum ==
    \A key \in metricKeys :
        computeCurrentSignalProfile(state)[key] =
            IF RawSignal(state)[key] < range.min THEN range.min
            ELSE IF RawSignal(state)[key] > range.max THEN range.max
            ELSE RawSignal(state)[key]

\* after an advance, a recipe whose delta left the range and a modifier that
\* brought the sum back into it
C9_Witness ==
    /\ state.currentNodeId # start_node
    /\ state.craftedCombinationIds = << "annotated_map" >>
    /\ state.appliedModifierIds = << "feed" >>
    /\ \A key \in metricKeys :
           range.min < RawSignal(state)[key] /\ RawSignal(state)[key] < range.max

\* the recipe is listed by getAvailableCombinations
Available(s, id) ==
    \E i \in 1..Len(getAvailableCombinations(s)) : getAvailableCombinations(s)[i].id = id

\* C10: a known recipe is in getAvailableCombinations iff craftCombination
\* accepts it, iff it is not yet crafted and all its inputs are visited or
\* crafted.
C10_AvailableIffAccepted ==
    (call.op = "craftCombination" /\ KnownCombination(call.id)) =>
        /\ Available(prev, call.id) <=>
               state.craftedCombinationIds = Append(prev.craftedCombinationIds, call.id)
        /\ Available(prev, call.id) <=>
               /\ call.id \notin Elems(prev.craftedCombinationIds)
               /\ InputsPresent(prev, RecipeOf(call.id).inputs)

\* an available recipe is crafted and leaves the available list
C10_Witness ==
    /\ call.op = "craftCombination"
    /\ Available(prev, call.id)
    /\ ~Available(state, call.id)
    /\ Len(getAvailableCombinations(prev)) = 2
    /\ Len(getAvailableCombinations(state)) = 1

\* the ids of the modifiers that getAvailableModifiers lists, in its order
AvailableModifierIds(s) ==
    [ i \in 1..Len(getAvailableModifiers(s)) |-> getAvailableModifiers(s)[i].id ]

\* C11: getAvailableModifiers lists exactly the known modifiers that are not
\* applied, and applyModifier of a known modifier is accepted iff it is not
\* yet applied, whatever has been visited or crafted.
C11_ModifierOnlyOnce ==
    /\ NoDuplicates(AvailableModifierIds(state))
    /\ Elems(AvailableModifierIds(state)) =
           {distribution[i].id : i \in 1..Len(distribution)} \ Elems(state.appliedModifierIds)
    /\ (call.op = "applyModifier" /\ KnownModifier(call.id)) =>
           (state.appliedModifierIds = Append(prev.appliedModifierIds, call.id)
                <=> call.id \notin Elems(prev.appliedModifierIds))
    /\ (call.op = "applyModifier" /\ KnownModifier(call.id)
            /\ call.id \in Elems(prev.appliedModifierIds)) =>
           state.appliedModifierIds = prev.appliedModifierIds

\* a modifier is applied at the start stage with nothing crafted; the other
\* one stays available
C11_Witness ==
    /\ call.op = "applyModifier"
    /\ prev.visitedNodeIds = << start_node >>
    /\ prev.craftedArtifactIds = << >>
    /\ state.appliedModifierIds = << "search", "feed" >>
    /\ AvailableModifierIds(prev) = << "feed" >>
    /\ AvailableModifierIds(state) = << >>

\* C12: reset returns the fresh state, whatever the run before it held: the
\* start stage, visited only, nothing crafted, applied or reflected, turn 0
\* and a history of exactly one reset entry.
C12_ResetIsFresh ==
    call.op = "reset" =>
        /\ state.currentNodeId = start_node
        /\ state.visitedNodeIds = << start_node >>
        /\ state.craftedCombinationIds = << >>
        /\ state.craftedArtifactIds = << >>
        /\ state.appliedModifierIds = << >>
        /\ state.reflections = << >>
        /\ state.turn = 0
        /\ Len(state.history) = 1
        /\ state.history[1].action = "reset"
        /\ state.history[1].turn = 0

\* reset of a run that had advanced, crafted, applied and reflected
C12_Witness ==
    /\ call.op = "reset"
    /\ prev.currentNodeId # start_node
    /\ prev.craftedCombinationIds # << >>
    /\ prev.appliedModifierIds # << >>
    /\ prev.reflections # << >>

\* the history entry of an accepted advance
AcceptedAdvance(e) == e.action = "advance" /\ e.detail.kind = "->"

\* the id of the stage of the given order
StageOfOrder(k) == (CHOOSE node \in Elems(core_spine) : node.order = k).id

\* C13: with k accepted advances since the run began, the current stage is
\* the stage of order k + 1 and visitedNodeIds lists the stages of order
\* 1 .. k + 1 in spine order; when nothing else was called, turn = k.
C13_AdvancesWalkTheSpine ==
    LET k == CountEntries(state.history, AcceptedAdvance)
    IN /\ k <= Len(core_spine) - 1
       /\ state.currentNodeId = StageOfOrder(k + 1)
       /\ Len(state.visitedNodeIds) = k + 1
       /\ \A i \in 1..(k + 1) : state.visitedNodeIds[i] = StageOfOrder(i)
       /\ (\A i \in 1..Len(state.history) : AcceptedAdvance(state.history[i])) =>
              state.turn = k

\* the whole spine walked, with other calls in between
C13_Witness ==
    /\ CountEntries(state.history, AcceptedAdvance) = Len(core_spine) - 1
    /\ state.turn > Len(core_spine) - 1
    /\ state.craftedCombinationIds # << >>

\* the current stage of s is the last stage of the spine
AtEnd(s) == Order(s.currentNodeId) = Len(core_spine)

\* C15: at the terminal stage an available recipe is still crafted and a
\* modifier that is not yet applied is still applied, also after rejected
\* advance calls.
C15_EndDoesNotLock ==
    /\ (/\ AtEnd(prev)
        /\ call.op = "craftCombination"
        /\ KnownCombination(call.id)
        /\ call.id \notin Elems(prev.craftedCombinationIds)
        /\ InputsPresent(prev, RecipeOf(call.id).inputs)) =>
           /\ state.craftedCombinationIds = Append(prev.craftedCombinationIds, call.id)
           /\ RecipeOf(call.id).output \in Elems(state.craftedArtifactIds)
    /\ (/\ AtEnd(prev)
        /\ call.op = "applyModifier"
        /\ KnownModifier(call.id)
        /\ call.id \notin Elems(prev.appliedModifierIds)) =>
           state.appliedModifierIds = Append(prev.appliedModifierIds, call.id)

\* a recipe crafted at the terminal stage right after a rejected advance
C15_Witness ==
    /\ AtEnd(prev)
    /\ prev.history # << >>
    /\ prev.history[Len(prev.history)].action = "advance"
    /\ ~AcceptedAdvance(prev.history[Len(prev.history)])
    /\ call.op = "craftCombination"
    /\ call.id \in Elems(state.craftedCombinationIds)

\* the inputs of a recipe that s neither visited nor crafted
MissingInputs(s, inputs) ==
    Elems(inputs) \ (Elems(s.visitedNodeIds) \cup Elems(s.craftedArtifactIds))

\* C16: a rejected advance, craftCombination or applyModifier leaves the
\* current stage and the five lists as they were, and the entry logged for a
\* craft with missing inputs names exactly the missing inputs.
C16_RejectedLeavesRun ==
    /\ (call.op \in ReducerCalls /\ Illegal(prev, call)) =>
           /\ state.currentNodeId = prev.currentNodeId
           /\ state.visitedNodeIds = prev.visitedNodeIds
           /\ state.craftedCombinationIds = prev.craftedCombinationIds
           /\ state.craftedArtifactIds = prev.craftedArtifactIds
           /\ state.appliedModifierIds = prev.appliedModifierIds
           /\ state.reflections = prev.reflections
    /\ (/\ call.op = "craftCombination"
        /\ KnownCombination(call.id)
        /\ call.id \notin Elems(prev.craftedCombinationIds)
        /\ MissingInputs(prev, RecipeOf(call.id).inputs) # {}) =>
           LET entry == state.history[Len(state.history)]
           IN /\ entry.action = "combination"
              /\ entry.detail.kind = " blocked. Missing inputs: "
              /\ entry.detail.label = RecipeOf(call.id).label
              /\ Elems(entry.detail.ids) = MissingInputs(prev, RecipeOf(call.id).inputs)

\* a craft with one input present and the other missing
C16_Witness ==
    /\ call.op = "craftCombination"
    /\ KnownCombination(call.id)
    /\ MissingInputs(prev, RecipeOf(call.id).inputs) # {}
    /\ MissingInputs(prev, RecipeOf(call.id).inputs) # Elems(RecipeOf(call.id).inputs)
    /\ prev.craftedArtifactIds # << >>

\* C17: addReflection with an empty or whitespace-only text returns its
\* input state unchanged, and no other reducer call does.
C17_BlankReflectionIsNoOp ==
    /\ (call.op = "addReflection" /\ Blank(call.text)) => state = prev
    /\ (call.op \in ReducerCalls /\ state = prev) =>
           (call.op = "addReflection" /\ Blank(call.text))

\* a whitespace-only reflection on a run that holds a reflection
C17_Witness ==
    /\ call.op = "addReflection"
    /\ call.text # << >>
    /\ Blank(call.text)
    /\ prev.reflections # << >>

\* C14: when advance keeps being called and reset is not, the terminal stage
\* is eventually reached, by exactly Len(core_spine) - 1 accepted advances;
\* there getNextNodeId is null and the current stage no longer changes.
C14_AdvanceReachesEnd ==
    /\ <>AtEnd(state)
    /\ [](AtEnd(state) =>
              /\ getNextNodeId(state.currentNodeId) = NULL
              /\ CountEntries(state.history, AcceptedAdvance) = Len(core_spine) - 1)
    /\ [][AtEnd(state) => state'.currentNodeId = state.currentNodeId]_vars

\* advance called again at the terminal stage
C14_Witness ==
    /\ AtEnd(prev)
    /\ AtEnd(state)
    /\ call.op = "advance"
    /\ state.turn = prev.turn + 1

\* the start node and both ends of every progression edge are stages of the
\* dictionary
ConfigKnown ==
    /\ start_node \in DOMAIN spineById
    /\ \A i \in 1..Len(progression_edges) :
           /\ progression_edges[i][1] \in DOMAIN spineById
           /\ progression_edges[i][2] \in DOMAIN spineById

\* C18: a configuration whose start node or progression edge names a stage
\* that the dictionary does not have is rejected when it is loaded, so the
\* run never starts; a missing-stage error is never raised by a reducer or
\* query call.
C18_UnknownStageRejectedAtLoad ==
    /\ ~ConfigKnown => thrown # NotThrown
    /\ thrown # NotThrown => call.op \notin ReducerCalls \cup QueryCalls

\* the missing-stage error raised by advance, after the run was started and
\* had advanced
C18_Witness ==
    /\ ~ConfigKnown
    /\ thrown = MissingNode(UnknownStage)
    /\ call.op = "advance"
    /\ CountEntries(state.history, AcceptedAdvance) > 0

\* C19: when the start node and the ends of every edge are known stages,
\* nothing is thrown: the current stage is a stage of the dictionary, no
\* query and no advance on the state throws, and craftCombination or
\* applyModifier with an unknown id returns the run with one more entry.
C19_KnownConfigNeverThrows ==
    ConfigKnown =>
        /\ thrown = NotThrown
        /\ state.currentNodeId \in DOMAIN spineById
        /\ \A query \in QueryCalls : ~IsError(QueryResult(query, state))
        /\ ~IsError(advanceOneStep(state))
        /\ \A id \in CombinationArgs : ~IsError(craftCombination(state, id))
        /\ \A id \in ModifierArgs : ~IsError(applyModifier(state, id))
        /\ ( \/ call.op = "craftCombination" /\ ~KnownCombination(call.id)
             \/ call.op = "applyModifier" /\ ~KnownModifier(call.id) )
               => /\ OneMoreEntry(prev, state)
                  /\ SameRun(prev, state)

\* an unknown modifier id at a stage later than the start node
C19_Witness ==
    /\ ConfigKnown
    /\ call.op = "applyModifier"
    /\ ~KnownModifier(call.id)
    /\ state.currentNodeId # start_node
    /\ Len(state.history) = Len(prev.history) + 1

\* C20: the current stage crosses a gated edge only in a gate submission
\* whose trimmed answer passes the validation of that edge, so after an
\* answer passed it since the last reset; an advance request, by click or
\* by key, on a gated edge whose key is not among the passed ones opens
\* that gate with an empty answer and leaves the run as it is.
C20_GatesGuardCrossings ==
    /\ gateKey(prev.currentNodeId, state.currentNodeId) \in gateChallenges =>
           /\ call.op = "handleGateSubmit"
           /\ validate(gateKey(prev.currentNodeId, state.currentNodeId), trim(call.text))
           /\ Includes(passedGateKeys, gateKey(prev.currentNodeId, state.currentNodeId))
    /\ ( /\ call.op \in {"click", "keydown"}
         /\ getNextNodeId(prev.currentNodeId) # NULL
         /\ gateKey(prev.currentNodeId, getNextNodeId(prev.currentNodeId)) \in gateChallenges
         /\ ~Includes(passedGateKeys,
                      gateKey(prev.currentNodeId, getNextNodeId(prev.currentNodeId))) )
           => /\ state = prev
              /\ pendingGateKey = gateKey(prev.currentNodeId, getNextNodeId(prev.currentNodeId))
              /\ gateAnswer = NoText
    /\ pendingGateKey # NoGate =>
           pendingGateKey = gateKey(state.currentNodeId, getNextNodeId(state.currentNodeId))

\* Math is reached by the submission that passes the third gate
C20_Witness ==
    /\ state.currentNodeId = "math"
    /\ prev.currentNodeId = "protocol"
    /\ call.op = "handleGateSubmit"
    /\ Len(passedGateKeys) = 3

\* the outputs of the recipes ids, each listed once, where it is first made
RECURSIVE FirstOutputs(_)
FirstOutputs(ids) ==
    IF ids = << >>
    THEN << >>
    ELSE LET earlier == FirstOutputs(SubSeq(ids, 1, Len(ids) - 1))
             output == RecipeOf(ids[Len(ids)]).output
         IN IF Includes(earlier, output) THEN earlier ELSE Append(earlier, output)

\* C24: craftedArtifactIds holds exactly the outputs of the recipes in
\* craftedCombinationIds, each once, in the order of first production.
C24_ArtifactsAreCraftedOutputs ==
    /\ Elems(state.craftedArtifactIds) =
           { RecipeOf(id).output : id \in Elems(state.craftedCombinationIds) }
    /\ state.craftedArtifactIds = FirstOutputs(state.craftedCombinationIds)

\* two recipes crafted that have the same output
C24_Witness ==
    /\ Len(state.craftedCombinationIds) = 2
    /\ Len(state.craftedArtifactIds) = 1

\* p is a prefix of s
IsPrefix(p, s) ==
    /\ Len(p) <= Len(s)
    /\ SubSeq(s, 1, Len(p)) = p

\* p is a prefix of s and s has at most one entry more
GrowsByAtMostOne(p, s) ==
    /\ IsPrefix(p, s)
    /\ Len(s) <= Len(p) + 1

\* C25: over every reducer call other than reset, visitedNodeIds,
\* craftedCombinationIds, craftedArtifactIds, appliedModifierIds and
\* reflections of the input are prefixes of those of the result, which
\* are at most one entry longer.
C25_ListsOnlyGrowAtEnd ==
    call.op \in ReducerCalls =>
        /\ GrowsByAtMostOne(prev.visitedNodeIds, state.visitedNodeIds)
        /\ GrowsByAtMostOne(prev.craftedCombinationIds, state.craftedCombinationIds)
        /\ GrowsByAtMostOne(prev.craftedArtifactIds, state.craftedArtifactIds)
        /\ GrowsByAtMostOne(prev.appliedModifierIds, state.appliedModifierIds)
        /\ GrowsByAtMostOne(prev.reflections, state.reflections)

\* an advance appends a stage to a list that already holds more than one
C25_Witness ==
    /\ call.op = "advance"
    /\ Len(prev.visitedNodeIds) = 2
    /\ Len(state.visitedNodeIds) = 3
    /\ state.craftedCombinationIds # << >>

\* C26: a gate submission whose answer fails the validation leaves the
\* run, the passed gates and the pending gate as they are; cancelling the
\* gate clears the pending gate and leaves the run and the passed gates;
\* a pending gate is the gate of the edge that leaves the current stage.
C26_FailedSubmitAndCancel ==
    [][ /\ ( /\ call'.op = "handleGateSubmit"
             /\ ~validate(pendingGateKey, trim(gateAnswer)) )
               => /\ state' = state
                  /\ passedGateKeys' = passedGateKeys
                  /\ pendingGateKey' = pendingGateKey
        /\ call'.op = "cancelGate"
               => /\ pendingGateKey' = NoGate
                  /\ state' = state
                  /\ passedGateKeys' = passedGateKeys
        /\ pendingGateKey' # NoGate
               => pendingGateKey' =
                      gateKey(state'.currentNodeId, getNextNodeId(state'.currentNodeId))
      ]_vars

\* a failed submission at the second gate, the first one passed
C26_Witness ==
    /\ call.op = "handleGateSubmit"
    /\ pendingGateKey = gateKey("solution", "protocol")
    /\ ~validate(pendingGateKey, trim(call.text))
    /\ call.text # NoText
    /\ gateAnswer = call.text
    /\ Len(passedGateKeys) = 1

\* the empty cells of a grid
EmptyCells(grid) == { cell \in CellsOf(grid) : At(grid, cell[1], cell[2]) = -1 }

\* two cells are next to each other in a row or in a column
Orthogonal(a, b) ==
    \/ a[1] = b[1] /\ (a[2] = b[2] + 1 \/ b[2] = a[2] + 1)
    \/ a[2] = b[2] /\ (a[1] = b[1] + 1 \/ b[1] = a[1] + 1)

\* C21: on a grid with exactly one empty cell and a cell next to it in its
\* row or column, tryMove returns moved = true and a grid of the same
\* cells in which the former empty cell holds the clicked tile, the
\* clicked cell is empty and every other cell is as before; the argument
\* grid is as it was.
C21_AdjacentTileMoves ==
    ( /\ probe.fn = "tryMove"
      /\ Cardinality(EmptyCells(probe.grid)) = 1
      /\ \E empty \in EmptyCells(probe.grid) : Orthogonal(empty, << probe.row, probe.col >>) )
        => /\ probe.moved
           /\ CellsOf(probe.next) = CellsOf(probe.grid)
           /\ \A cell \in CellsOf(probe.grid) :
                  At(probe.next, cell[1], cell[2]) =
                      IF cell \in EmptyCells(probe.grid)
                      THEN At(probe.grid, probe.row, probe.col)
                      ELSE IF cell = << probe.row, probe.col >>
                      THEN -1
                      ELSE At(probe.grid, cell[1], cell[2])
           /\ probe.input = probe.grid

\* the tile below the empty cell of the MoveSystem test is moved
C21_Witness ==
    /\ probe.fn = "tryMove"
    /\ probe.grid = << << 1, 2, 3 >>, << 4, -1, 6 >>, << 7, 5, 8 >> >>
    /\ probe.row = 2
    /\ probe.col = 1
    /\ probe.next = << << 1, 2, 3 >>, << 4, 5, 6 >>, << 7, -1, 8 >> >>

RECURSIVE Offset(_, _)
Offset(grid, row) == IF row = 0 THEN 0 ELSE Offset(grid, row - 1) + Len(grid[row])

\* the grid in row-major order: the cell row, col is at Offset + col
RowMajor(grid) ==
    [ k \in 1..Cardinality(CellsOf(grid)) |->
        LET cell == CHOOSE c \in CellsOf(grid) : Offset(grid, c[1]) + c[2] + 1 = k
        IN At(grid, cell[1], cell[2]) ]

\* C23: isSolved(grid, targetTiles) is true iff the grid in row-major order
\* has the length of targetTiles and the same tile at every position.
C23_SolvedIffRowMajorEqual ==
    probe.fn = "isSolved" =>
        ( probe.solved <=>
              /\ Len(RowMajor(probe.grid)) = Len(probe.targetTiles)
              /\ \A k \in 1..Len(probe.targetTiles) :
                     RowMajor(probe.grid)[k] = probe.targetTiles[k] )

\* the board of level1 is found solved after moves that bring it back
C23_Witness ==
    /\ probe.fn = "isSolved"
    /\ probe.solved
    /\ probe.calls = 2
    /\ probe.targetTiles = level1.tiles

\* how often a tile value occurs in a list of tiles
Count(tiles, value) == Cardinality({ k \in 1..Len(tiles) : tiles[k] = value })

\* C27: after any tryMove calls that began with the board of a level, the
\* grid has size rows of size cells, exactly one empty cell and as many
\* tiles of every value as the level; a call that moved a tile put the
\* empty cell one step along its row or column.
C27_BoardIsPreserved ==
    ( /\ probe.fn = "tryMove"
      /\ probe.start = tilesToGrid(level1.tiles, level1.size) )
        => /\ Len(probe.next) = level1.size
           /\ \A row \in 1..Len(probe.next) : Len(probe.next[row]) = level1.size
           /\ Cardinality(EmptyCells(probe.next)) = 1
           /\ \A value \in Elems(level1.tiles) \cup Elems(gridToTiles(probe.next)) :
                  Count(gridToTiles(probe.next), value) = Count(level1.tiles, value)
           /\ probe.moved <=> probe.next # probe.grid
           /\ probe.moved =>
                  \E from \in EmptyCells(probe.grid) :
                      \E to \in EmptyCells(probe.next) : Orthogonal(from, to)

\* the fourth call in a row that moved a tile of level1
C27_Witness ==
    /\ probe.fn = "tryMove"
    /\ probe.start = tilesToGrid(level1.tiles, level1.size)
    /\ probe.calls = 4
    /\ probe.moved
    /\ At(probe.next, 1, 1) = -1

\* the pointer was pressed over a tile that is next to the empty cell
PressedMovableTile(data, input) ==
    /\ input.justPressed
    /\ input.at \in CellsOf(data.grid) \ EmptyCells(data.grid)
    /\ \E empty \in EmptyCells(data.grid) : Orthogonal(empty, input.at)

StartCalls == {"mount", "startLevel", "resetLevel", "playAgain"}

\* C28: a frame whose update handles a press on a tile next to the empty
\* cell changes the grid and raises moves by exactly 1; any other frame
\* and any pointer event leave grid and moves as they are; startLevel and
\* resetLevel set moves to 0, status to playing and showWin to false.  So
\* moves counts the accepted moves since the level was last started.
C28_MovesCountsAcceptedMoves ==
    [][ /\ call'.op = "frame" =>
               IF PressedMovableTile(gameState, pointer)
               THEN /\ gameState'.grid # gameState.grid
                    /\ gameState'.moves = gameState.moves + 1
               ELSE /\ gameState'.grid = gameState.grid
                    /\ gameState'.moves = gameState.moves
        /\ call'.op \in StartCalls =>
               /\ gameState'.moves = 0
               /\ gameState'.status = "playing"
               /\ ~gameState'.ui.showWin
               /\ gameState'.grid = tilesToGrid(activeLevel'.tiles, activeLevel'.size)
        /\ call'.op \notin StartCalls \cup {"frame"} =>
               /\ gameState'.grid = gameState.grid
               /\ gameState'.moves = gameState.moves
      ]_vars

\* the third accepted move of a level, the pointer still over the cell
\* that it emptied
C28_Witness ==
    /\ call.op = "frame"
    /\ gameState.moves = 3
    /\ gameState.status = "playing"
    /\ pointer.at \in EmptyCells(gameState.grid)

\* C29: status = won implies that the grid is targetTiles, and showWin is
\* true only while status = won.
C29_WonMeansSolved ==
    /\ gameState.status = "won" => gridToTiles(gameState.grid) = gameState.targetTiles
    /\ gameState.ui.showWin => gameState.status = "won"

\* the win card is shown and a tile has been moved away since
C29_Witness ==
    /\ gameState.status = "won"
    /\ gameState.ui.showWin
    /\ gridToTiles(gameState.grid) # gameState.targetTiles
    /\ gameState.moves = 3

\* C30: justPressed becomes true in a pointerdown only, stays true until
\* a frame runs an update step and is false after it; a frame that finds
\* it false leaves the store as it is, and a frame that finds it true
\* moves at most one tile and raises moves by at most 1, however many
\* update steps it runs.
C30_PressHandledOnce ==
    [][ /\ call'.op = "frame" => ~pointer'.justPressed
        /\ call'.op = "pointerdown" => pointer'.justPressed
        /\ call'.op \notin {"frame", "pointerdown"} =>
               pointer'.justPressed = pointer.justPressed
        /\ (call'.op = "frame" /\ ~pointer.justPressed) => gameState' = gameState
        /\ call'.op = "frame" =>
               /\ gameState'.moves \in {gameState.moves, gameState.moves + 1}
               /\ gameState'.grid # gameState.grid =>
                      /\ gameState'.moves = gameState.moves + 1
                      /\ gameState'.grid =
                             tryMove(gameState.grid, pointer.at[1], pointer.at[2]).grid
      ]_vars

\* a press was handled by a frame and the pointer is still down over the
\* cell it emptied: the update steps that follow find justPressed false
C30_Witness ==
    /\ call.op = "frame"
    /\ pointer.isDown
    /\ ~pointer.justPressed
    /\ pointer.at \in EmptyCells(gameState.grid)
    /\ gameState.moves = 1

====
